---- MODULE Spec2Model ----
(***************************************************************************)
(* Model of src/src/extract/main.cc: the command-line parser               *)
(* (parse_cmd_args), the blocking task (extractmain), the lifecycle        *)
(* coordinator run_in_loggers_fsm_t and the bootstrap in main().           *)
(*                                                                         *)
(* Strings are sequences of one-character strings, so that getopt_long and *)
(* strtol are computed character by character as libc computes them.       *)
(***************************************************************************)
EXTENDS Integers, Sequences, FiniteSets, TLC

(***************************************************************************)
(* Bounds of the model.                                                    *)
(***************************************************************************)
\* number of argument groups on the command line
MaxGroups == 2
\* length of the digit strings given to the two size overrides in SpecParse
MaxDigits == 2
\* the number of argument groups of a command line of OptionArgLists
MaxOptions == 2
\* width of the int fields of overrides (scaled down from 32 bits)
IntBits == 4
\* width of the long that strtol returns (scaled down from 64 bits)
LongBits == 6

(***************************************************************************)
(* Characters and integer arithmetic.                                      *)
(***************************************************************************)
RECURSIVE Pow2(_)
Pow2(n) == IF n = 0 THEN 1 ELSE 2 * Pow2(n - 1)

LONG_MAX == Pow2(LongBits - 1) - 1
LONG_MIN == 0 - Pow2(LongBits - 1)

\* conversion of the long returned by strtol to the int field it is stored in
ToInt(v) ==
    LET m == v % Pow2(IntBits)
    IN  IF m >= Pow2(IntBits - 1) THEN m - Pow2(IntBits) ELSE m

Digits == {"0", "1", "2", "3", "4", "5", "6", "7", "8", "9"}

DigitVal(ch) ==
    CASE ch = "0" -> 0 [] ch = "1" -> 1 [] ch = "2" -> 2 [] ch = "3" -> 3
      [] ch = "4" -> 4 [] ch = "5" -> 5 [] ch = "6" -> 6 [] ch = "7" -> 7
      [] ch = "8" -> 8 [] ch = "9" -> 9

Tail2(s, k) == SubSeq(s, k, Len(s))

IsPrefix(p, s) == Len(p) <= Len(s) /\ SubSeq(s, 1, Len(p)) = p

\* digits of s from position k on, accumulated in base 10 and clamped to the
\* range of long; yields the value and the position after the last digit
RECURSIVE strtol_digits(_, _, _, _)
strtol_digits(s, k, acc, neg) ==
    IF k > Len(s) \/ s[k] \notin Digits
    THEN [val |-> acc, end |-> k]
    ELSE LET d == DigitVal(s[k])
             raw == IF neg THEN acc * 10 - d ELSE acc * 10 + d
             nxt == IF raw > LONG_MAX THEN LONG_MAX
                    ELSE IF raw < LONG_MIN THEN LONG_MIN ELSE raw
         IN  strtol_digits(s, k + 1, nxt, neg)

RECURSIVE SkipSpace(_, _)
SkipSpace(s, k) == IF k <= Len(s) /\ s[k] = " " THEN SkipSpace(s, k + 1) ELSE k

\* strtol(optarg, &endptr, 10): val is the result, rest is the string at endptr
strtol(s) ==
    LET k0 == SkipSpace(s, 1)
        signed == k0 <= Len(s) /\ s[k0] \in {"-", "+"}
        neg == signed /\ s[k0] = "-"
        k1 == IF signed THEN k0 + 1 ELSE k0
        r == strtol_digits(s, k1, 0, neg)
    IN  IF r.end = k1
        THEN [val |-> 0, rest |-> s]
        ELSE [val |-> r.val, rest |-> Tail2(s, r.end)]

(***************************************************************************)
(* The option tables of parse_cmd_args.                                    *)
(***************************************************************************)
\* enum { force_block_size = 256, force_extent_size, force_mod_count }
force_block_size == 256
force_extent_size == force_block_size + 1
force_mod_count == force_extent_size + 1

\* the character codes getopt_long returns for the short options
Ord(ch) ==
    CASE ch = "f" -> 102 [] ch = "h" -> 104 [] ch = "l" -> 108
      [] ch = "o" -> 111 [] ch = "?" -> 63

\* "f:l:o:h"
optstring == <<"f", ":", "l", ":", "o", ":", "h">>

\* flag is TRUE for the entry whose flag field is &do_help
long_options == <<
    [name |-> <<"f", "o", "r", "c", "e", "-", "b", "l", "o", "c", "k", "-", "s", "i", "z", "e">>, has_arg |-> TRUE, flag |-> FALSE, val |-> force_block_size],
    [name |-> <<"f", "o", "r", "c", "e", "-", "e", "x", "t", "e", "n", "t", "-", "s", "i", "z", "e">>, has_arg |-> TRUE, flag |-> FALSE, val |-> force_extent_size],
    [name |-> <<"f", "o", "r", "c", "e", "-", "m", "o", "d", "-", "c", "o", "u", "n", "t">>, has_arg |-> TRUE, flag |-> FALSE, val |-> force_mod_count],
    [name |-> <<"f", "i", "l", "e">>, has_arg |-> TRUE, flag |-> FALSE, val |-> Ord("f")],
    [name |-> <<"l", "o", "g", "-", "f", "i", "l", "e">>, has_arg |-> TRUE, flag |-> FALSE, val |-> Ord("l")],
    [name |-> <<"o", "u", "t", "p", "u", "t", "-", "f", "i", "l", "e">>, has_arg |-> TRUE, flag |-> FALSE, val |-> Ord("o")],
    [name |-> <<"h", "e", "l", "p">>, has_arg |-> FALSE, flag |-> TRUE, val |-> 1] >>

\* EXTRACT_CONFIG_DEFAULT_OUTPUT_FILE
DefaultOutputFile == <<"d", "u", "m", "p">>

\* config->init(): no input file, no log file, the default output file, no
\* override (an override of 0 is an absent override, as the check of the
\* block and extent sizes reads it)
config_init ==
    [input_file |-> <<>>, log_file |-> <<>>, output_file |-> DefaultOutputFile,
     overrides |-> [block_size |-> 0, extent_size |-> 0, mod_count |-> 0]]

(***************************************************************************)
(* getopt_long(argc, argv, "f:l:o:h", long_options, &option_index), GNU    *)
(* flavour: non-options are skipped (and permuted behind the options),     *)
(* "--" ends the options.  argv here is C's argv[1..argc-1], so that       *)
(* optind has its C value and C's argc is Len(argv) + 1.                   *)
(***************************************************************************)
IsOption(tok) == Len(tok) >= 2 /\ tok[1] = "-"

RECURSIVE NextOption(_, _)
NextOption(argv, i) ==
    IF i <= Len(argv) /\ ~IsOption(argv[i]) THEN NextOption(argv, i + 1) ELSE i

GetoptResult(c, optarg, optind, nextchar, do_help, skip) ==
    [c |-> c, optarg |-> optarg, optind |-> optind, nextchar |-> nextchar,
     do_help |-> do_help, skip |-> skip]

ShortIndex(ch) ==
    IF ch # ":" /\ \E p \in 1..Len(optstring) : optstring[p] = ch
    THEN CHOOSE p \in 1..Len(optstring) : optstring[p] = ch
    ELSE 0

\* the option character at position n of the cluster argv[j], which is at
\* position p of optstring (0: not in it)
ShortFound(argv, j, n, skip, p) ==
    LET tok == argv[j]
        last == n = Len(tok)
        takes_arg == p > 0 /\ p < Len(optstring) /\ optstring[p + 1] = ":"
        oi == IF last THEN j + 1 ELSE j
        nc == IF last THEN 0 ELSE n + 1
    IN  IF p = 0 THEN GetoptResult(Ord("?"), <<>>, oi, nc, 0, skip)
        ELSE IF ~takes_arg THEN GetoptResult(Ord(tok[n]), <<>>, oi, nc, 0, skip)
        ELSE IF ~last THEN GetoptResult(Ord(tok[n]), Tail2(tok, n + 1), j + 1, 0, 0, skip)
        ELSE IF j + 1 <= Len(argv)
             THEN GetoptResult(Ord(tok[n]), argv[j + 1], j + 2, 0, 0, skip)
        ELSE GetoptResult(Ord("?"), <<>>, j + 1, 0, 0, skip)

ShortOption(argv, j, n, skip) == ShortFound(argv, j, n, skip, ShortIndex(argv[j][n]))

\* the position of the first "=" of body, Len(body) + 1 when it has none
EqualsAt(body) ==
    IF \E k \in 1..Len(body) : body[k] = "="
    THEN CHOOSE k \in 1..Len(body) :
             body[k] = "=" /\ \A m \in 1..(k - 1) : body[m] # "="
    ELSE Len(body) + 1

\* the entry of long_options that name selects: the one it equals, or the
\* only one it is a prefix of; 0 when there is none or more than one
LongIndex(name) ==
    LET cands == {k \in 1..Len(long_options) : IsPrefix(name, long_options[k].name)}
        exact == {k \in cands : long_options[k].name = name}
    IN  IF exact # {} THEN CHOOSE k \in exact : TRUE
        ELSE IF Cardinality(cands) = 1 THEN CHOOSE k \in cands : TRUE
        ELSE 0

\* the long option opt, written body = "name" or "name=value" with the
\* "=" at position eq; an entry with a flag stores val in it and yields 0
LongFound(argv, j, skip, body, eq, opt) ==
    LET c == IF opt.flag THEN 0 ELSE opt.val
        dh == IF opt.flag THEN opt.val ELSE 0
    IN  IF eq <= Len(body)
        THEN IF opt.has_arg
             THEN GetoptResult(c, Tail2(body, eq + 1), j + 1, 0, dh, skip)
             ELSE GetoptResult(Ord("?"), <<>>, j + 1, 0, 0, skip)
        ELSE IF ~opt.has_arg THEN GetoptResult(c, <<>>, j + 1, 0, dh, skip)
        ELSE IF j + 1 <= Len(argv)
             THEN GetoptResult(c, argv[j + 1], j + 2, 0, dh, skip)
        ELSE GetoptResult(Ord("?"), <<>>, j + 1, 0, 0, skip)

LongSelect(argv, j, skip, body, eq, idx) ==
    IF idx = 0 THEN GetoptResult(Ord("?"), <<>>, j + 1, 0, 0, skip)
    ELSE LongFound(argv, j, skip, body, eq, long_options[idx])

LongNamed(argv, j, skip, body, eq) ==
    LongSelect(argv, j, skip, body, eq, LongIndex(SubSeq(body, 1, eq - 1)))

\* the long option argv[j] = "--name" or "--name=value"
LongOption(argv, j, skip) ==
    LongNamed(argv, j, skip, Tail2(argv[j], 3), EqualsAt(Tail2(argv[j], 3)))

\* the first element of argv at or after optind that is an option is at j
GetoptAt(argv, optind, j) ==
    IF j > Len(argv)
    THEN GetoptResult(-1, <<>>, j, 0, 0, SubSeq(argv, optind, j - 1))
    ELSE IF argv[j] = <<"-", "-">>
    THEN GetoptResult(-1, <<>>, j + 1, 0, 0, SubSeq(argv, optind, j - 1))
    ELSE IF argv[j][2] = "-" THEN LongOption(argv, j, SubSeq(argv, optind, j - 1))
    ELSE ShortOption(argv, j, 2, SubSeq(argv, optind, j - 1))

getopt_long(argv, optind, nextchar) ==
    IF nextchar > 0 THEN ShortOption(argv, optind, nextchar, <<>>)
    ELSE GetoptAt(argv, optind, NextOption(argv, optind))

(***************************************************************************)
(* parse_cmd_args.  The outcome is "return" (the function returns, config  *)
(* filled), "usage" (usage() printed the options and called exit(-1)) or   *)
(* "fail" (fail() reported msg and ended the process).  opts are the       *)
(* option codes examined, in order.                                        *)
(***************************************************************************)
Outcome(kind, msg, config, opts) ==
    [kind |-> kind, msg |-> msg, config |-> config, opts |-> opts]

\* case force_block_size / force_extent_size / force_mod_count: the value
\* stored in the field, and whether the option is accepted
OverrideValue(optarg) == ToInt(strtol(optarg).val)

OverrideOk(optarg) == strtol(optarg).rest = <<>> /\ OverrideValue(optarg) > 0

\* SanityCheck with the check of the input file before the check of the
\* extra argument
SanityCheck_file_first(rest, config, opts) ==
    IF config.input_file = <<>> THEN Outcome("fail", "no_file", config, opts)
    ELSE IF rest # <<>> THEN Outcome("fail", "extra_argument", config, opts)
    ELSE IF /\ config.overrides.extent_size # 0
            /\ config.overrides.block_size # 0
            /\ config.overrides.extent_size % config.overrides.block_size # 0
         THEN Outcome("fail", "not_a_multiple", config, opts)
    ELSE Outcome("return", "none", config, opts)

\* lines 114-128: the checks after the option loop; rest is argv from optind
\* on, after getopt_long moved the non-options behind the options
SanityCheck(rest, config, opts) ==
    IF rest # <<>> THEN Outcome("fail", "extra_argument", config, opts)
    ELSE IF config.input_file = <<>> THEN Outcome("fail", "no_file", config, opts)
    ELSE IF /\ config.overrides.extent_size # 0
            /\ config.overrides.block_size # 0
            /\ config.overrides.extent_size % config.overrides.block_size # 0
         THEN Outcome("fail", "not_a_multiple", config, opts)
    ELSE Outcome("return", "none", config, opts)

\* OptionCode without lines 62-64: the flag that --help sets is never read
OptionCode_flag_unread(g) == g.c

\* lines 62-64: if (do_help) c = 'h'
OptionCode(g) == IF g.do_help # 0 THEN Ord("h") ELSE g.c

\* lines 83-87, 90-94, 97-101: the override is stored in its field, and
\* fail() ends the process unless all of optarg is a number above 0
RECURSIVE OptionLoop(_, _, _, _, _, _)
\* ForceCase without the test of lines 85, 92 and 99
ForceCase_unchecked(argv, g, sk, cfg, seen, field) ==
    OptionLoop(argv, g.optind, g.nextchar, sk, cfg, seen)

\* ForceCase when the test of lines 85, 92 and 99 is made after all the
\* options have been read: r is what the rest of the loop came to
ForceCase_late_result(ok, cfg, field, r) ==
    IF ~ok /\ r.kind = "return" THEN Outcome("fail", field, cfg, r.opts) ELSE r

ForceCase_late(argv, g, sk, cfg, seen, field) ==
    ForceCase_late_result(OverrideOk(g.optarg), cfg, field,
                          OptionLoop(argv, g.optind, g.nextchar, sk, cfg, seen))

ForceCase(argv, g, sk, cfg, seen, field) ==
    IF ~OverrideOk(g.optarg)
    THEN Outcome("fail", field, cfg, seen)
    ELSE OptionLoop(argv, g.optind, g.nextchar, sk, cfg, seen)

\* lines 70-111: switch (c), then the next iteration
OptionSwitch(argv, g, c, sk, config, seen) ==
    IF c = 0
    THEN OptionLoop(argv, g.optind, g.nextchar, sk, config, seen)
    ELSE IF c = Ord("f")
    THEN OptionLoop(argv, g.optind, g.nextchar, sk,
                    [config EXCEPT !.input_file = g.optarg], seen)
    ELSE IF c = Ord("l")
    THEN OptionLoop(argv, g.optind, g.nextchar, sk,
                    [config EXCEPT !.log_file = g.optarg], seen)
    ELSE IF c = Ord("o")
    THEN OptionLoop(argv, g.optind, g.nextchar, sk,
                    [config EXCEPT !.output_file = g.optarg], seen)
    ELSE IF c = force_block_size
    THEN ForceCase(argv, g, sk,
                   [config EXCEPT !.overrides.block_size = OverrideValue(g.optarg)],
                   seen, "block_size")
    ELSE IF c = force_extent_size
    THEN ForceCase(argv, g, sk,
                   [config EXCEPT !.overrides.extent_size = OverrideValue(g.optarg)],
                   seen, "extent_size")
    ELSE IF c = force_mod_count
    THEN ForceCase(argv, g, sk,
                   [config EXCEPT !.overrides.mod_count = OverrideValue(g.optarg)],
                   seen, "mod_count")
    ELSE IF c = Ord("h")
    THEN Outcome("usage", "help", config, seen)
    ELSE Outcome("usage", "bad_option", config, seen)

\* lines 60-68: getopt_long returned g; -1 ends the options
OptionStep(argv, g, c, skipped, config, opts) ==
    IF c = -1
    THEN SanityCheck(skipped \o g.skip \o Tail2(argv, g.optind), config, opts)
    ELSE OptionSwitch(argv, g, c, skipped \o g.skip, config, Append(opts, c))

OptionGot(argv, g, skipped, config, opts) ==
    OptionStep(argv, g, OptionCode(g), skipped, config, opts)

\* lines 44-112: the for (;;) loop, from the state getopt_long is in
\* (g is what this iteration's call of getopt_long returned)
OptionLoop(argv, optind, nextchar, skipped, config, opts) ==
    CHOOSE r \in {OptionGot(argv, g, skipped, config, opts) :
                      g \in {getopt_long(argv, optind, nextchar)}} : TRUE

parse_cmd_args(argv) == OptionLoop(argv, 1, 0, <<>>, config_init, <<>>)

(***************************************************************************)
(* The command lines the model runs the program on: up to MaxGroups        *)
(* argument groups, each an option with its argument, a flag, a stray      *)
(* word, an option that lacks its argument, or "--".                       *)
(***************************************************************************)
T_f == <<"-", "f">>
T_h == <<"-", "h">>
T_x == <<"-", "x">>
T_end == <<"-", "-">>
T_help == <<"-", "-">> \o long_options[7].name
T_block == <<"-", "-">> \o long_options[1].name
T_extent == <<"-", "-">> \o long_options[2].name

\* the values given to the overrides: 2 and 3 (3 is no multiple of 2), and
\* a string that is no number
OverrideArgs == {<<"2">>, <<"3">>, <<"x">>}

Groups ==
    {<<T_f, <<"a">>>>, <<T_f>>, <<T_h>>, <<T_help>>, <<T_x>>, <<T_end>>, <<<<"a">>>>}
    \cup {<<T_block, v>> : v \in OverrideArgs}
    \cup {<<T_extent, v>> : v \in OverrideArgs}

\* the first n groups of gs, one after the other
RECURSIVE Flatten(_, _)
Flatten(gs, n) == IF n = 0 THEN <<>> ELSE Flatten(gs, n - 1) \o gs[n]

\* both size overrides and the data file, as in
\* --force-block-size 512 --force-extent-size 1000 -f x
BothOverrides(b, e) == <<T_block, b, T_extent, e, T_f, <<"a">>>>

ArgLists ==
    UNION {{Flatten(gs, n) : gs \in [1..n -> Groups]} : n \in 0..MaxGroups}
    \cup {BothOverrides(b, e) : b \in OverrideArgs, e \in OverrideArgs}

\* the decimal strings of 1 to MaxDigits digits out of 0, 1, 2 and 3
SizeStrings ==
    UNION {[1..n -> {"0", "1", "2", "3"}] : n \in 1..MaxDigits}

\* the command lines of SpecParse: one or both size overrides, every
\* string of SizeStrings as their value, and the data file
SizeArgLists ==
    {BothOverrides(b, e) : b \in SizeStrings, e \in SizeStrings}
    \cup {<<T_block, b, T_f, <<"a">>>> : b \in SizeStrings}
    \cup {<<T_extent, e, T_f, <<"a">>>> : e \in SizeStrings}

\* the other options that take an argument
T_l == <<"-", "l">>
T_o == <<"-", "o">>
T_mod == <<"-", "-">> \o long_options[3].name
T_file == <<"-", "-">> \o long_options[4].name
T_log_file == <<"-", "-">> \o long_options[5].name
T_output_file == <<"-", "-">> \o long_options[6].name

\* every option with an argument it accepts, an empty path, two overrides
\* that are rejected, a help flag, an option that does not exist, a stray
\* word and a -f that lacks its argument
OptionGroups ==
    {<<T_f, <<"a">>>>, <<T_f, <<>>>>, <<T_l, <<"b">>>>, <<T_o, <<"c">>>>,
     <<T_mod, <<"2">>>>, <<T_block, <<"2">>>>, <<T_extent, <<"3">>>>,
     <<T_block, <<"x">>>>, <<T_mod, <<"0">>>>,
     <<T_h>>, <<T_x>>, <<<<"w">>>>, <<T_f>>}

\* what may follow --force-block-size 2 --force-extent-size 3, an extent
\* size that is no multiple of the block size
AfterSizes ==
    {<<>>, <<T_f, <<"a">>>>, <<T_f, <<>>>>, <<<<"w">>>>, <<T_f, <<"a">>, <<"w">>>>,
     <<T_f, <<"a">>, T_x>>, <<T_f, <<"a">>, T_mod, <<"0">>>>, <<<<"w">>, T_help>>}

\* the command lines of SpecOptions: up to MaxOptions groups, the
\* inconsistent sizes with each tail of AfterSizes, and the long names
OptionArgLists ==
    UNION {{Flatten(gs, n) : gs \in [1..n -> OptionGroups]} : n \in 0..MaxOptions}
    \cup {<<T_block, <<"2">>, T_extent, <<"3">>>> \o t : t \in AfterSizes}
    \cup {<<T_file, <<"a">>, T_log_file, <<"b">>, T_output_file, <<"c">>>>}

\* the command lines of SpecFair: some that parse_cmd_args accepts and some
\* that it rejects
FairArgLists ==
    {<<T_f, <<"a">>>>, <<T_f, <<"a">>, T_o, <<"c">>>>, <<T_l, <<"b">>, T_f, <<"a">>>>,
     <<T_block, <<"2">>, T_extent, <<"2">>, T_f, <<"a">>>>,
     <<T_mod, <<"3">>, T_file, <<"a">>>>,
     <<>>, <<T_h>>, <<T_f, <<"a">>, <<"w">>>>,
     <<T_block, <<"2">>, T_extent, <<"3">>, T_f, <<"a">>>>}

(***************************************************************************)
(* The state of the process.                                               *)
(***************************************************************************)
VARIABLES
    args,             \* argv[1..argc-1] of main
    pc_main,          \* position of the launching thread in main
    handler,          \* TRUE once filecheck_crash_handler is installed
    queued,           \* the starter message is with the pool, not yet dispatched
    stack,            \* the call stack of every execution context
    fsm,              \* the run_in_loggers_fsm_t: "none", "live" or "released"
    runner,           \* the runner: "none", "live" or "released"
    calls,            \* how often each operation was called
    pending,          \* the callbacks the log controller still owes
    mode,             \* how the controller completed each request
    readyBy,          \* the entries into on_logger_ready: context and caller
    shutdownBy,       \* the entries into on_logger_shutdown: context and caller
    poolStops,        \* the callers of pool->shutdown(), in order
    cfg,              \* the extract_config_t of extractmain
    examined,         \* the values of c that the switch of parse_cmd_args saw
    exit,             \* how the process ended, kind "none" while it runs
    events,           \* the lifecycle events, in the order they happened
    useAfterRelease,  \* a member was read or a method entered after gdelete(this)
    staleTouch,       \* a context used the fsm after handing a request over
    deferredBy        \* the contexts whose request the controller deferred

vars == <<args, pc_main, handler, queued, stack, fsm, runner, calls, pending,
          mode, readyBy, shutdownBy, poolStops, cfg, examined, exit, events,
          useAfterRelease, staleTouch, deferredBy>>

\* the pool's worker and two more contexts a deferred callback may arrive on
Contexts == {"worker", "ctx2", "ctx3"}

Frame(fn, pc) == [fn |-> fn, pc |-> pc, ret |-> FALSE]

Top(ctx) == stack[ctx][Len(stack[ctx])]

\* At when a context goes on running after exit() or fail()
At_after_exit(ctx, fn, pc) ==
    /\ stack[ctx] # <<>>
    /\ Top(ctx).fn = fn
    /\ Top(ctx).pc = pc

\* the top frame of ctx is in fn at pc, and the process has not ended
At(ctx, fn, pc) ==
    /\ exit.kind = "none"
    /\ stack[ctx] # <<>>
    /\ Top(ctx).fn = fn
    /\ Top(ctx).pc = pc

\* the stack of ctx with its top frame at pc
Goto(ctx, pc) == [stack[ctx] EXCEPT ![Len(stack[ctx])].pc = pc]

Pop(ctx) == SubSeq(stack[ctx], 1, Len(stack[ctx]) - 1)

Count(op) == [calls EXCEPT ![op] = @ + 1]

\* ctx reads a member of the fsm or enters one of its methods
Touch(ctx) ==
    /\ useAfterRelease' = (useAfterRelease \/ fsm # "live")
    /\ staleTouch' = (staleTouch \/ deferredBy[ctx])

NoTouch == UNCHANGED <<useAfterRelease, staleTouch>>

\* exit(status) or fail(): the whole process ends
Exit(kind, msg, status) == [kind |-> kind, msg |-> msg, status |-> status]

Start(arglists) ==
    /\ args \in arglists
    /\ pc_main = "sigaction"
    /\ handler = FALSE
    /\ queued = FALSE
    /\ stack = [c \in Contexts |-> <<>>]
    /\ fsm = "none"
    /\ runner = "none"
    /\ calls = [op \in {"on_cpu_switch", "controller_start", "controller_shutdown",
                        "new_runner", "new_fsm", "start", "run", "parse_cmd_args",
                        "dumpfile", "delete_runner", "delete_fsm"} |-> 0]
    /\ pending = [ready |-> FALSE, shutdown |-> FALSE]
    /\ mode = [start |-> "none", shutdown |-> "none"]
    /\ readyBy = <<>>
    /\ shutdownBy = <<>>
    /\ poolStops = <<>>
    /\ cfg = config_init
    /\ examined = <<>>
    /\ exit = Exit("none", "none", 0)
    /\ events = <<>>
    /\ useAfterRelease = FALSE
    /\ staleTouch = FALSE
    /\ deferredBy = [c \in Contexts |-> FALSE]

Init == Start(ArgLists)

InitSizes == Start(SizeArgLists)

InitOptions == Start(OptionArgLists)

InitFair == Start(FairArgLists)

(***************************************************************************)
(* Process exit.                                                           *)
(***************************************************************************)
\* usage(): prints the options and calls exit(-1), a status of 255
usage_exit(msg) == Exit("usage", msg, 255)

\* fail(): reports the message and ends the process with a non-zero status
fail_exit(kind, msg) == Exit(kind, msg, 1)

(***************************************************************************)
(* main: the launching thread.                                             *)
(***************************************************************************)
\* lines 204-208: sigaction(SIGSEGV, filecheck_crash_handler)
main_sigaction ==
    /\ exit.kind = "none"
    /\ pc_main = "sigaction"
    /\ handler' = TRUE
    /\ pc_main' = "run"
    /\ UNCHANGED <<args, examined, queued, stack, fsm, runner, calls, pending, mode,
                   readyBy, shutdownBy, poolStops, cfg, exit, events,
                   useAfterRelease, staleTouch, deferredBy>>

\* lines 224-230: thread_pool_t thread_pool(1); thread_pool.run(&starter)
\* hands the starter message to the pool and blocks
main_run ==
    /\ exit.kind = "none"
    /\ pc_main = "run"
    /\ queued' = TRUE
    /\ pc_main' = "blocked"
    /\ UNCHANGED <<args, examined, handler, stack, fsm, runner, calls, pending, mode,
                   readyBy, shutdownBy, poolStops, cfg, exit, events,
                   useAfterRelease, staleTouch, deferredBy>>

\* thread_pool_t::run returns once the pool was asked to stop and its
\* contexts have finished what they were running
pool_stopped ==
    /\ poolStops # <<>>
    /\ ~queued
    /\ \A c \in Contexts : stack[c] = <<>>

\* main_return when thread_pool.run does not block until the pool stopped
main_return_early ==
    /\ exit.kind = "none"
    /\ pc_main = "blocked"
    /\ pc_main' = "returned"
    /\ exit' = Exit("normal", "none", 0)
    /\ events' = Append(events, "exit")
    /\ UNCHANGED <<args, examined, handler, queued, stack, fsm, runner, calls, pending,
                   mode, readyBy, shutdownBy, poolStops, cfg,
                   useAfterRelease, staleTouch, deferredBy>>

\* lines 230-232: thread_pool.run returns; return 0
main_return ==
    /\ exit.kind = "none"
    /\ pc_main = "blocked"
    /\ pool_stopped
    /\ pc_main' = "returned"
    /\ exit' = Exit("normal", "none", 0)
    /\ events' = Append(events, "exit")
    /\ UNCHANGED <<args, examined, handler, queued, stack, fsm, runner, calls, pending,
                   mode, readyBy, shutdownBy, poolStops, cfg,
                   useAfterRelease, staleTouch, deferredBy>>

(***************************************************************************)
(* server_starter_t::on_cpu_switch, on the pool's worker.                  *)
(***************************************************************************)
\* pool_dispatch when the pool dispatches the starter message a second time
pool_dispatch_twice ==
    /\ exit.kind = "none"
    /\ queued
    /\ stack["worker"] = <<>>
    /\ queued' = (calls["on_cpu_switch"] = 0)
    /\ calls' = Count("on_cpu_switch")
    /\ stack' = [stack EXCEPT !["worker"] = <<Frame("on_cpu_switch", "new_runner")>>]
    /\ UNCHANGED <<args, examined, pc_main, handler, fsm, runner, pending, mode,
                   readyBy, shutdownBy, poolStops, cfg, exit, events,
                   useAfterRelease, staleTouch, deferredBy>>

\* the pool dispatches the starter message on its one worker
pool_dispatch ==
    /\ exit.kind = "none"
    /\ queued
    /\ stack["worker"] = <<>>
    /\ queued' = FALSE
    /\ calls' = Count("on_cpu_switch")
    /\ stack' = [stack EXCEPT !["worker"] = <<Frame("on_cpu_switch", "new_runner")>>]
    /\ UNCHANGED <<args, examined, pc_main, handler, fsm, runner, pending, mode,
                   readyBy, shutdownBy, poolStops, cfg, exit, events,
                   useAfterRelease, staleTouch, deferredBy>>

\* line 218: gnew<extract::runner>(argc, argv)
on_cpu_switch_new_runner(ctx) ==
    /\ At(ctx, "on_cpu_switch", "new_runner")
    /\ runner' = "live"
    /\ calls' = Count("new_runner")
    /\ stack' = [stack EXCEPT ![ctx] = Goto(ctx, "new_fsm")]
    /\ UNCHANGED <<args, examined, pc_main, handler, queued, fsm, pending, mode,
                   readyBy, shutdownBy, poolStops, cfg, exit, events,
                   useAfterRelease, staleTouch, deferredBy>>

\* line 219: gnew<extract::run_in_loggers_fsm_t>(pool, runner)
on_cpu_switch_new_fsm(ctx) ==
    /\ At(ctx, "on_cpu_switch", "new_fsm")
    /\ fsm' = "live"
    /\ calls' = Count("new_fsm")
    /\ stack' = [stack EXCEPT ![ctx] = Goto(ctx, "start")]
    /\ UNCHANGED <<args, examined, pc_main, handler, queued, runner, pending, mode,
                   readyBy, shutdownBy, poolStops, cfg, exit, events,
                   useAfterRelease, staleTouch, deferredBy>>

\* on_cpu_switch_start when on_cpu_switch calls runner->run() itself
\* instead of fsm->start()
on_cpu_switch_start_runs_task(ctx) ==
    /\ At(ctx, "on_cpu_switch", "start")
    /\ calls' = Count("run")
    /\ stack' = [stack EXCEPT ![ctx] = Append(Goto(ctx, "ret"), Frame("run", "parse"))]
    /\ NoTouch
    /\ UNCHANGED <<args, examined, pc_main, handler, queued, fsm, runner, pending, mode,
                   readyBy, shutdownBy, poolStops, cfg, exit, events, deferredBy>>

\* line 220: fsm->start()
on_cpu_switch_start(ctx) ==
    /\ At(ctx, "on_cpu_switch", "start")
    /\ calls' = Count("start")
    /\ stack' = [stack EXCEPT ![ctx] = Append(Goto(ctx, "ret"), Frame("start", "request"))]
    /\ Touch(ctx)
    /\ UNCHANGED <<args, examined, pc_main, handler, queued, fsm, runner, pending, mode,
                   readyBy, shutdownBy, poolStops, cfg, exit, events, deferredBy>>

(***************************************************************************)
(* log_controller_t: start(cb) and shutdown(cb) return true when the       *)
(* request completed inline; when they return false the callback is        *)
(* delivered later, once, on some context that is running nothing.         *)
(***************************************************************************)
\* the request req ("start" or "shutdown") is made by ctx, whose frame
\* goes on to pc; the controller decides how it completes
controller_request(ctx, req, inline, pc) ==
    /\ calls' = Count(IF req = "start" THEN "controller_start" ELSE "controller_shutdown")
    /\ mode' = [mode EXCEPT ![req] = IF inline THEN "inline" ELSE "deferred"]
    /\ pending' = [pending EXCEPT ![IF req = "start" THEN "ready" ELSE "shutdown"] =
                       @ \/ ~inline]
    /\ deferredBy' = [deferredBy EXCEPT ![ctx] = @ \/ ~inline]
    /\ stack' = [stack EXCEPT ![ctx] =
                     Append(Goto(ctx, pc),
                            [fn |-> "controller", pc |-> "return_bool", ret |-> inline])]

\* the controller's start or shutdown returns its bool to the caller
controller_return(ctx) ==
    /\ At(ctx, "controller", "return_bool")
    /\ stack' = [stack EXCEPT ![ctx] =
                     [Pop(ctx) EXCEPT ![Len(stack[ctx]) - 1].ret = Top(ctx).ret]]
    /\ NoTouch
    /\ UNCHANGED <<args, examined, pc_main, handler, queued, fsm, runner, calls, pending,
                   mode, readyBy, shutdownBy, poolStops, cfg, exit, events,
                   deferredBy>>

\* the controller delivers the deferred ready callback: cb->on_logger_ready()
deliver_ready(ctx) ==
    /\ exit.kind = "none"
    /\ pending.ready
    /\ stack[ctx] = <<>>
    /\ pending' = [pending EXCEPT !.ready = FALSE]
    /\ stack' = [stack EXCEPT ![ctx] =
                     <<Frame("controller_deliver", "ret"), Frame("on_logger_ready", "run")>>]
    /\ readyBy' = Append(readyBy, [ctx |-> ctx, via |-> "callback"])
    /\ events' = Append(events, "ready")
    /\ Touch(ctx)
    /\ UNCHANGED <<args, examined, pc_main, handler, queued, fsm, runner, calls, mode,
                   shutdownBy, poolStops, cfg, exit, deferredBy>>

\* the controller delivers the deferred shutdown callback:
\* cb->on_logger_shutdown()
deliver_shutdown(ctx) ==
    /\ exit.kind = "none"
    /\ pending.shutdown
    /\ stack[ctx] = <<>>
    /\ pending' = [pending EXCEPT !.shutdown = FALSE]
    /\ stack' = [stack EXCEPT ![ctx] =
                     <<Frame("controller_deliver", "ret"), Frame("on_logger_shutdown", "pool")>>]
    /\ shutdownBy' = Append(shutdownBy, [ctx |-> ctx, via |-> "callback"])
    /\ events' = Append(events, "deactivate_done")
    /\ Touch(ctx)
    /\ UNCHANGED <<args, examined, pc_main, handler, queued, fsm, runner, calls, mode,
                   readyBy, poolStops, cfg, exit, deferredBy>>

(***************************************************************************)
(* run_in_loggers_fsm_t.                                                   *)
(***************************************************************************)
\* line 163: controller.start(this)
start_request(ctx) ==
    /\ At(ctx, "start", "request")
    /\ \E inline \in BOOLEAN : controller_request(ctx, "start", inline, "test")
    /\ events' = Append(events, "activate_req")
    /\ Touch(ctx)
    /\ UNCHANGED <<args, examined, pc_main, handler, queued, fsm, runner, readyBy,
                   shutdownBy, poolStops, cfg, exit>>

\* start_test when start() calls on_logger_ready() whatever
\* controller.start returned
start_test_always(ctx) ==
    /\ At(ctx, "start", "test")
    /\ stack' = [stack EXCEPT ![ctx] =
                     Append(Goto(ctx, "ret"), Frame("on_logger_ready", "run"))]
    /\ readyBy' = Append(readyBy, [ctx |-> ctx, via |-> "start"])
    /\ events' = Append(events, "ready")
    /\ Touch(ctx)
    /\ UNCHANGED <<args, examined, pc_main, handler, queued, fsm, runner, calls, pending,
                   mode, shutdownBy, poolStops, cfg, exit, deferredBy>>

\* start_test with the condition negated: if (!controller.start(this))
start_test_negated(ctx) ==
    /\ At(ctx, "start", "test")
    /\ IF ~Top(ctx).ret
       THEN /\ stack' = [stack EXCEPT ![ctx] =
                             Append(Goto(ctx, "ret"), Frame("on_logger_ready", "run"))]
            /\ readyBy' = Append(readyBy, [ctx |-> ctx, via |-> "start"])
            /\ events' = Append(events, "ready")
            /\ Touch(ctx)
       ELSE /\ stack' = [stack EXCEPT ![ctx] = Goto(ctx, "ret")]
            /\ NoTouch
            /\ UNCHANGED <<readyBy, events>>
    /\ UNCHANGED <<args, examined, pc_main, handler, queued, fsm, runner, calls, pending,
                   mode, shutdownBy, poolStops, cfg, exit, deferredBy>>

\* lines 163-165: if (controller.start(this)) { on_logger_ready(); }
start_test(ctx) ==
    /\ At(ctx, "start", "test")
    /\ IF Top(ctx).ret
       THEN /\ stack' = [stack EXCEPT ![ctx] =
                             Append(Goto(ctx, "ret"), Frame("on_logger_ready", "run"))]
            /\ readyBy' = Append(readyBy, [ctx |-> ctx, via |-> "start"])
            /\ events' = Append(events, "ready")
            /\ Touch(ctx)
       ELSE /\ stack' = [stack EXCEPT ![ctx] = Goto(ctx, "ret")]
            /\ NoTouch
            /\ UNCHANGED <<readyBy, events>>
    /\ UNCHANGED <<args, examined, pc_main, handler, queued, fsm, runner, calls, pending,
                   mode, shutdownBy, poolStops, cfg, exit, deferredBy>>

\* on_logger_ready_run when on_logger_ready() does not run the task
on_logger_ready_run_skipped(ctx) ==
    /\ At(ctx, "on_logger_ready", "run")
    /\ stack' = [stack EXCEPT ![ctx] = Goto(ctx, "shutdown")]
    /\ NoTouch
    /\ UNCHANGED <<args, examined, pc_main, handler, queued, fsm, runner, calls, pending,
                   mode, readyBy, shutdownBy, poolStops, cfg, exit, events,
                   deferredBy>>

\* on_logger_ready_run when on_logger_ready() calls runner->run() twice
on_logger_ready_run_twice(ctx) ==
    /\ At(ctx, "on_logger_ready", "run")
    /\ calls' = Count("run")
    /\ stack' = [stack EXCEPT ![ctx] =
                     Append(Goto(ctx, IF calls["run"] = 0 THEN "run" ELSE "shutdown"),
                            Frame("run", "parse"))]
    /\ events' = Append(events, "task_start")
    /\ Touch(ctx)
    /\ UNCHANGED <<args, examined, pc_main, handler, queued, fsm, runner, pending, mode,
                   readyBy, shutdownBy, poolStops, cfg, exit, deferredBy>>

\* line 169: runner->run()
on_logger_ready_run(ctx) ==
    /\ At(ctx, "on_logger_ready", "run")
    /\ calls' = Count("run")
    /\ stack' = [stack EXCEPT ![ctx] = Append(Goto(ctx, "shutdown"), Frame("run", "parse"))]
    /\ events' = Append(events, "task_start")
    /\ Touch(ctx)
    /\ UNCHANGED <<args, examined, pc_main, handler, queued, fsm, runner, pending, mode,
                   readyBy, shutdownBy, poolStops, cfg, exit, deferredBy>>

\* on_logger_ready_shutdown when on_logger_ready() calls
\* on_logger_shutdown() without asking the controller to shut down
on_logger_ready_shutdown_unasked(ctx) ==
    /\ At(ctx, "on_logger_ready", "shutdown")
    /\ stack' = [stack EXCEPT ![ctx] =
                     Append(Goto(ctx, "ret"), Frame("on_logger_shutdown", "pool"))]
    /\ shutdownBy' = Append(shutdownBy, [ctx |-> ctx, via |-> "on_logger_ready"])
    /\ events' = Append(events, "deactivate_done")
    /\ Touch(ctx)
    /\ UNCHANGED <<args, examined, pc_main, handler, queued, fsm, runner, calls, pending,
                   mode, readyBy, poolStops, cfg, exit, deferredBy>>

\* line 171: controller.shutdown(this)
on_logger_ready_shutdown(ctx) ==
    /\ At(ctx, "on_logger_ready", "shutdown")
    /\ \E inline \in BOOLEAN : controller_request(ctx, "shutdown", inline, "test")
    /\ events' = Append(events, "deactivate_req")
    /\ Touch(ctx)
    /\ UNCHANGED <<args, examined, pc_main, handler, queued, fsm, runner, readyBy,
                   shutdownBy, poolStops, cfg, exit>>

\* on_logger_ready_test when on_logger_ready() calls on_logger_shutdown()
\* whatever controller.shutdown returned
on_logger_ready_test_always(ctx) ==
    /\ At(ctx, "on_logger_ready", "test")
    /\ stack' = [stack EXCEPT ![ctx] =
                     Append(Goto(ctx, "ret"), Frame("on_logger_shutdown", "pool"))]
    /\ shutdownBy' = Append(shutdownBy, [ctx |-> ctx, via |-> "on_logger_ready"])
    /\ events' = Append(events, "deactivate_done")
    /\ Touch(ctx)
    /\ UNCHANGED <<args, examined, pc_main, handler, queued, fsm, runner, calls, pending,
                   mode, readyBy, poolStops, cfg, exit, deferredBy>>

\* lines 171-173: if (controller.shutdown(this)) { on_logger_shutdown(); }
on_logger_ready_test(ctx) ==
    /\ At(ctx, "on_logger_ready", "test")
    /\ IF Top(ctx).ret
       THEN /\ stack' = [stack EXCEPT ![ctx] =
                             Append(Goto(ctx, "ret"), Frame("on_logger_shutdown", "pool"))]
            /\ shutdownBy' = Append(shutdownBy, [ctx |-> ctx, via |-> "on_logger_ready"])
            /\ events' = Append(events, "deactivate_done")
            /\ Touch(ctx)
       ELSE /\ stack' = [stack EXCEPT ![ctx] = Goto(ctx, "ret")]
            /\ NoTouch
            /\ UNCHANGED <<shutdownBy, events>>
    /\ UNCHANGED <<args, examined, pc_main, handler, queued, fsm, runner, calls, pending,
                   mode, readyBy, poolStops, cfg, exit, deferredBy>>

\* on_logger_shutdown_pool when on_logger_shutdown() does not call
\* pool->shutdown()
on_logger_shutdown_pool_unasked(ctx) ==
    /\ At(ctx, "on_logger_shutdown", "pool")
    /\ stack' = [stack EXCEPT ![ctx] = Goto(ctx, "gdelete")]
    /\ Touch(ctx)
    /\ UNCHANGED <<args, examined, pc_main, handler, queued, fsm, runner, calls, pending,
                   mode, readyBy, shutdownBy, poolStops, cfg, exit, events,
                   deferredBy>>

\* line 177: pool->shutdown()
on_logger_shutdown_pool(ctx) ==
    /\ At(ctx, "on_logger_shutdown", "pool")
    /\ poolStops' = Append(poolStops, "on_logger_shutdown")
    /\ events' = Append(events, "pool_stop")
    /\ stack' = [stack EXCEPT ![ctx] = Goto(ctx, "gdelete")]
    /\ Touch(ctx)
    /\ UNCHANGED <<args, examined, pc_main, handler, queued, fsm, runner, calls, pending,
                   mode, readyBy, shutdownBy, cfg, exit, deferredBy>>

\* fsm_destructor with an empty body: the runner is not released
fsm_destructor_empty(c) == c

\* lines 158-160: ~run_in_loggers_fsm_t() { gdelete(runner); }
fsm_destructor(c) == [c EXCEPT !["delete_runner"] = @ + 1]

\* line 178: gdelete(this), which runs the destructor
on_logger_shutdown_gdelete(ctx) ==
    /\ At(ctx, "on_logger_shutdown", "gdelete")
    /\ calls' = fsm_destructor(Count("delete_fsm"))
    /\ runner' = IF calls'["delete_runner"] > calls["delete_runner"]
                 THEN "released" ELSE runner
    /\ fsm' = "released"
    /\ stack' = [stack EXCEPT ![ctx] = Goto(ctx, "ret")]
    /\ Touch(ctx)
    /\ UNCHANGED <<args, examined, pc_main, handler, queued, pending, mode, readyBy,
                   shutdownBy, poolStops, cfg, exit, events, deferredBy>>

\* a function that has nothing left to run returns to its caller
frame_return(ctx) ==
    /\ exit.kind = "none"
    /\ stack[ctx] # <<>>
    /\ Top(ctx).pc = "ret"
    /\ stack' = [stack EXCEPT ![ctx] = Pop(ctx)]
    /\ deferredBy' = [deferredBy EXCEPT ![ctx] = @ /\ Len(stack[ctx]) > 1]
    /\ NoTouch
    /\ UNCHANGED <<args, examined, pc_main, handler, queued, fsm, runner, calls, pending,
                   mode, readyBy, shutdownBy, poolStops, cfg, exit, events>>

(***************************************************************************)
(* runner::run and extractmain: the blocking task.                         *)
(***************************************************************************)
\* extractmain_parse when extractmain calls dumpfile(cfg) before it parses
extractmain_parse_after_dumpfile(ctx) ==
    /\ At(ctx, "run", "parse")
    /\ LET r == parse_cmd_args(args)
       IN  /\ cfg' = r.config
           /\ examined' = r.opts
           /\ IF r.kind = "return"
              THEN /\ stack' = [stack EXCEPT ![ctx] = Goto(ctx, "dumpfile")]
                   /\ UNCHANGED exit
              ELSE /\ exit' = IF r.kind = "usage" THEN usage_exit(r.msg)
                              ELSE fail_exit("validation", r.msg)
                   /\ UNCHANGED stack
    /\ calls' = [calls EXCEPT !["parse_cmd_args"] = @ + 1, !["dumpfile"] = @ + 1]
    /\ NoTouch
    /\ UNCHANGED <<args, pc_main, handler, queued, fsm, runner, pending, mode,
                   readyBy, shutdownBy, poolStops, events, deferredBy>>

\* line 135: parse_cmd_args(argc, argv, &cfg)
extractmain_parse(ctx) ==
    /\ At(ctx, "run", "parse")
    /\ LET r == parse_cmd_args(args)
       IN  /\ cfg' = r.config
           /\ examined' = r.opts
           /\ IF r.kind = "return"
              THEN /\ stack' = [stack EXCEPT ![ctx] = Goto(ctx, "dumpfile")]
                   /\ UNCHANGED exit
              ELSE /\ exit' = IF r.kind = "usage" THEN usage_exit(r.msg)
                              ELSE fail_exit("validation", r.msg)
                   /\ UNCHANGED stack
    /\ calls' = Count("parse_cmd_args")
    /\ NoTouch
    /\ UNCHANGED <<args, pc_main, handler, queued, fsm, runner, pending, mode,
                   readyBy, shutdownBy, poolStops, events, deferredBy>>

\* line 136: dumpfile(cfg), the extraction engine: it returns, or it ends
\* the process through fail(); then extractmain and run() return
extractmain_dumpfile(ctx) ==
    /\ At(ctx, "run", "dumpfile")
    /\ calls' = Count("dumpfile")
    /\ \E returns \in BOOLEAN :
          IF returns
          THEN /\ stack' = [stack EXCEPT ![ctx] = Pop(ctx)]
               /\ events' = Append(events, "task_done")
               /\ UNCHANGED exit
          ELSE /\ exit' = fail_exit("fatal", "dumpfile")
               /\ UNCHANGED <<stack, events>>
    /\ NoTouch
    /\ UNCHANGED <<args, examined, pc_main, handler, queued, fsm, runner, pending, mode,
                   readyBy, shutdownBy, poolStops, cfg, deferredBy>>

\* lines 139-141 and 204-208: SIGSEGV is delivered to the process.  Once
\* the handler is installed it runs filecheck_crash_handler, which calls
\* fail("Internal crash detected."); before that, the signal's default
\* action ends the process.
filecheck_crash_handler ==
    /\ exit.kind = "none"
    /\ exit' = IF handler THEN fail_exit("fatal", "crash")
                ELSE Exit("signal", "SIGSEGV", 128 + 11)
    /\ UNCHANGED <<args, examined, pc_main, handler, queued, stack, fsm, runner, calls,
                   pending, mode, readyBy, shutdownBy, poolStops, cfg, events,
                   useAfterRelease, staleTouch, deferredBy>>

\* the steps of the launching thread, of the pool and its contexts and of
\* the log controller
Progress ==
    \/ main_sigaction
    \/ main_run
    \/ main_return
    \/ pool_dispatch
    \/ \E ctx \in Contexts : on_cpu_switch_new_runner(ctx)
    \/ \E ctx \in Contexts : on_cpu_switch_new_fsm(ctx)
    \/ \E ctx \in Contexts : on_cpu_switch_start(ctx)
    \/ \E ctx \in Contexts : start_request(ctx)
    \/ \E ctx \in Contexts : controller_return(ctx)
    \/ \E ctx \in Contexts : start_test(ctx)
    \/ \E ctx \in Contexts : deliver_ready(ctx)
    \/ \E ctx \in Contexts : on_logger_ready_run(ctx)
    \/ \E ctx \in Contexts : extractmain_parse(ctx)
    \/ \E ctx \in Contexts : extractmain_dumpfile(ctx)
    \/ \E ctx \in Contexts : on_logger_ready_shutdown(ctx)
    \/ \E ctx \in Contexts : on_logger_ready_test(ctx)
    \/ \E ctx \in Contexts : deliver_shutdown(ctx)
    \/ \E ctx \in Contexts : on_logger_shutdown_pool(ctx)
    \/ \E ctx \in Contexts : on_logger_shutdown_gdelete(ctx)
    \/ \E ctx \in Contexts : frame_return(ctx)

Next == Progress \/ filecheck_crash_handler

Spec == Init /\ [][Next]_vars

\* the same program, run on the command lines of SizeArgLists
SpecParse == InitSizes /\ [][Next]_vars

\* the same program, run on the command lines of OptionArgLists
SpecOptions == InitOptions /\ [][Next]_vars

\* the program on the command lines of FairArgLists, when the launching
\* thread and the pool's contexts keep running and the log controller
\* delivers every callback it owes; a SIGSEGV need never come
SpecFair == InitFair /\ [][Next]_vars /\ WF_vars(Progress)

(***************************************************************************)
(* What the claims speak of.                                               *)
(***************************************************************************)
Happened(e) == \E i \in 1..Len(events) : events[i] = e

\* some context has a frame of fn at one of pcs
InFrame(fn, pcs) ==
    \E c \in Contexts : \E i \in 1..Len(stack[c]) :
        stack[c][i].fn = fn /\ stack[c][i].pc \in pcs

FsmMethods == {"start", "on_logger_ready", "on_logger_shutdown"}

\* on_logger_shutdown was entered and has run its two statements
ShutdownDone ==
    Len(shutdownBy) >= 1 /\ ~InFrame("on_logger_shutdown", {"pool", "gdelete"})

EventOrder ==
    <<"activate_req", "ready", "task_start", "task_done", "deactivate_req",
      "deactivate_done", "pool_stop", "exit">>

\* the number a string of digits denotes
RECURSIVE Decimal(_, _)
Decimal(str, n) == IF n = 0 THEN 0 ELSE Decimal(str, n - 1) * 10 + DigitVal(str[n])

IsDecimal(str) == Len(str) >= 1 /\ \A k \in 1..Len(str) : str[k] \in Digits

IsPositiveDecimal(str) == IsDecimal(str) /\ Decimal(str, Len(str)) > 0

\* a positive decimal that the int field of an override can hold
IsPositiveInt(str) ==
    IsPositiveDecimal(str) /\ Decimal(str, Len(str)) < Pow2(IntBits - 1)

HelpFlags == {T_h, T_help}

SizeOptions == {T_block, T_extent, <<"-", "-">> \o long_options[3].name}

ArgumentOptions ==
    SizeOptions \cup {T_f, <<"-", "l">>, <<"-", "o">>}
    \cup {<<"-", "-">> \o long_options[k].name : k \in 4..6}

\* a help flag stands in argv at or after i, and all that stands between i
\* and it are plain words and options written apart from their argument,
\* the argument of an override being a positive int
RECURSIVE HelpReached(_, _)
HelpReached(argv, i) ==
    IF i > Len(argv) THEN FALSE
    ELSE IF argv[i] \in HelpFlags THEN TRUE
    ELSE IF argv[i] \in ArgumentOptions
    THEN /\ i + 1 <= Len(argv)
         /\ argv[i] \in SizeOptions => IsPositiveInt(argv[i + 1])
         /\ HelpReached(argv, i + 2)
    ELSE IF ~IsOption(argv[i]) THEN HelpReached(argv, i + 1)
    ELSE FALSE

HelpPresent(argv) == \E i \in 1..Len(argv) : argv[i] \in HelpFlags

\* both overrides with positive integers b and e, and a data file
BothPositive(argv) ==
    /\ Len(argv) = 6
    /\ argv = BothOverrides(argv[2], argv[4])
    /\ IsPositiveDecimal(argv[2])
    /\ IsPositiveDecimal(argv[4])

Parsed == calls["parse_cmd_args"] >= 1

(***************************************************************************)
(* The command line as its user reads it, for the command lines of         *)
(* OptionArgLists, where every option is a token of its own and its        *)
(* argument is the token after it: the first option that ends the run      *)
(* (fault), the options that stand up to it (opts), whether a word stands  *)
(* alone (stray), and the last argument given to each option.              *)
(***************************************************************************)
ScanInit ==
    [fault |-> "none", opts |-> <<>>, stray |-> FALSE,
     input_file |-> <<>>, log_file |-> <<>>, output_file |-> DefaultOutputFile,
     block_size |-> <<>>, extent_size |-> <<>>, mod_count |-> <<>>]

OptionField(tok) ==
    CASE tok \in {T_f, T_file} -> "input_file"
      [] tok \in {T_l, T_log_file} -> "log_file"
      [] tok \in {T_o, T_output_file} -> "output_file"
      [] tok = T_block -> "block_size"
      [] tok = T_extent -> "extent_size"
      [] tok = T_mod -> "mod_count"

\* the value of c that stands for the option tok
OptionValue(tok) ==
    CASE tok \in {T_f, T_file} -> Ord("f")
      [] tok \in {T_l, T_log_file} -> Ord("l")
      [] tok \in {T_o, T_output_file} -> Ord("o")
      [] tok = T_block -> force_block_size
      [] tok = T_extent -> force_extent_size
      [] tok = T_mod -> force_mod_count
      [] tok \in HelpFlags -> Ord("h")

ScanEnd(s, fault, c) == [s EXCEPT !.fault = fault, !.opts = Append(@, c)]

RECURSIVE Scan(_, _, _)
ScanArgument(argv, i, s, field, val) ==
    IF argv[i] \in SizeOptions /\ ~IsPositiveInt(val)
    THEN ScanEnd(s, field, OptionValue(argv[i]))
    ELSE Scan(argv, i + 2,
              [s EXCEPT ![field] = val, !.opts = Append(@, OptionValue(argv[i]))])

Scan(argv, i, s) ==
    IF i > Len(argv) THEN s
    ELSE IF argv[i] \in HelpFlags THEN ScanEnd(s, "help", OptionValue(argv[i]))
    ELSE IF argv[i] \in ArgumentOptions
    THEN IF i + 1 > Len(argv) THEN ScanEnd(s, "bad_option", Ord("?"))
         ELSE ScanArgument(argv, i, s, OptionField(argv[i]), argv[i + 1])
    ELSE IF IsOption(argv[i]) THEN ScanEnd(s, "bad_option", Ord("?"))
    ELSE Scan(argv, i + 1, [s EXCEPT !.stray = TRUE])

\* both sizes are given and the extent size is no multiple of the block size
Inconsistent(s) ==
    /\ s.block_size # <<>>
    /\ s.extent_size # <<>>
    /\ Decimal(s.extent_size, Len(s.extent_size))
           % Decimal(s.block_size, Len(s.block_size)) # 0

\* the fault that is first in the order option, stray word, input file,
\* sizes; "none" when the command line has no fault
FirstFault(s) ==
    IF s.fault # "none" THEN s.fault
    ELSE IF s.stray THEN "extra_argument"
    ELSE IF s.input_file = <<>> THEN "no_file"
    ELSE IF Inconsistent(s) THEN "not_a_multiple"
    ELSE "none"

UsageFaults == {"help", "bad_option"}

(***************************************************************************)
(* The claims.                                                             *)
(***************************************************************************)
\* C1: on_logger_ready is entered at most once; after an inline
\* controller.start it is entered from start() and no ready callback is
\* owed, after a deferred one it is entered from the callback only; it has
\* been entered exactly once as soon as start() is past its test (inline)
\* or the callback was delivered (deferred).
C1_ReadyExactlyOnce ==
    /\ Len(readyBy) <= 1
    /\ \A i \in 1..Len(readyBy) :
          readyBy[i].via = IF mode.start = "inline" THEN "start" ELSE "callback"
    /\ mode.start = "inline" => ~pending.ready
    /\ mode.start = "inline" /\ ~InFrame("start", {"request", "test"})
          => Len(readyBy) = 1
    /\ mode.start = "deferred" /\ ~pending.ready => Len(readyBy) = 1

C1_Witness ==
    /\ mode.start = "deferred"
    /\ Len(readyBy) = 1
    /\ readyBy[1].via = "callback"
    /\ InFrame("on_logger_ready", {"run"})

\* C2: on_logger_shutdown is entered at most once, and only when
\* on_logger_ready was entered and the task has returned; it is entered from
\* on_logger_ready after an inline controller.shutdown and from the callback
\* after a deferred one; a run that ends normally has entered it once.
C2_ShutdownOnceAfterReady ==
    /\ Len(shutdownBy) <= 1
    /\ Len(shutdownBy) = 1 =>
          /\ Len(readyBy) = 1
          /\ calls["run"] = 1
          /\ Happened("task_done")
          /\ ~InFrame("run", {"parse", "dumpfile"})
    /\ \A i \in 1..Len(shutdownBy) :
          shutdownBy[i].via =
              IF mode.shutdown = "inline" THEN "on_logger_ready" ELSE "callback"
    /\ exit.kind = "normal" => Len(shutdownBy) = 1

C2_Witness ==
    /\ Len(shutdownBy) = 1
    /\ mode.start = "inline"
    /\ mode.shutdown = "deferred"
    /\ InFrame("on_logger_shutdown", {"pool"})

\* C3: the lifecycle events happen in the order activation request,
\* readiness, task start, task completion, deactivation request,
\* deactivation completion, pool-stop request, return of main; none is
\* skipped and none happens twice.
C3_EventsInOrder == IsPrefix(events, EventOrder)

C3_Witness == events = EventOrder /\ pc_main = "returned"

\* C4: pool->shutdown() is called at most once and by on_logger_shutdown
\* only, the runner and the fsm are released at most once, and once
\* on_logger_shutdown has run each of the three has happened exactly once.
C4_StopAndReleaseOnce ==
    /\ Len(poolStops) <= 1
    /\ \A i \in 1..Len(poolStops) : poolStops[i] = "on_logger_shutdown"
    /\ calls["delete_runner"] <= 1
    /\ calls["delete_fsm"] <= 1
    /\ ShutdownDone =>
          /\ Len(poolStops) = 1
          /\ calls["delete_runner"] = 1
          /\ calls["delete_fsm"] = 1
          /\ runner = "released"
          /\ fsm = "released"

C4_Witness == ShutdownDone /\ runner = "released" /\ exit.kind = "none"

\* C5: controller.start and controller.shutdown are each called at most
\* once, shutdown only after start, and a run that ends normally has called
\* each exactly once.
C5_OneRequestEach ==
    /\ calls["controller_start"] <= 1
    /\ calls["controller_shutdown"] <= 1
    /\ calls["controller_shutdown"] <= calls["controller_start"]
    /\ exit.kind = "normal" =>
          calls["controller_start"] = 1 /\ calls["controller_shutdown"] = 1

C5_Witness ==
    /\ exit.kind = "normal"
    /\ mode.start = "deferred"
    /\ mode.shutdown = "deferred"
    /\ calls["controller_start"] = 1
    /\ calls["controller_shutdown"] = 1

\* C6: once gdelete(this) has run, no context reads a member of the fsm or
\* enters one of its methods; the frames of its methods that are still on a
\* stack only return.
C6_NoUseAfterRelease ==
    /\ ~useAfterRelease
    /\ fsm = "released" =>
          \A c \in Contexts : \A i \in 1..Len(stack[c]) :
              stack[c][i].fn \in FsmMethods =>
                  \/ stack[c][i].pc = "ret"
                  \/ stack[c][i].pc = "test" /\ ~stack[c][i].ret /\ deferredBy[c]

C6_Witness ==
    /\ fsm = "released"
    /\ InFrame("on_logger_shutdown", {"ret"})
    /\ InFrame("on_logger_ready", {"ret"})
    /\ InFrame("start", {"ret"})

\* C7: when a request is deferred, whenever the callback arrives, also
\* before the requesting call has returned, each transition is entered at
\* most once and by one context, and the requesting context, from its
\* request on, reads no member of the fsm and enters none of its methods:
\* its frames only test the returned false and return.
C7_NoRaceOnDeferral ==
    /\ Len(readyBy) <= 1
    /\ Len(shutdownBy) <= 1
    /\ ~staleTouch
    /\ \A c \in Contexts : deferredBy[c] =>
          \A i \in 1..Len(stack[c]) :
              stack[c][i].fn \in FsmMethods =>
                  \/ stack[c][i].pc = "ret"
                  \/ stack[c][i].pc = "test" /\ ~stack[c][i].ret

C7_Witness ==
    /\ stack["worker"] # <<>>
    /\ Top("worker").fn = "controller"
    /\ ~Top("worker").ret
    /\ Len(readyBy) = 1
    /\ readyBy[1].ctx # "worker"
    /\ fsm = "released"

\* C8 as stated: when parsing ends in a validation error, the pool has done
\* no work and the coordinator was never started.
C8_Original ==
    exit.kind = "validation" =>
        calls["new_runner"] = 0 /\ calls["new_fsm"] = 0 /\ calls["start"] = 0

\* C8, amended: when parsing ends in a validation error the process ends
\* with a non-zero status inside the task: the coordinator was constructed
\* and started and logging is ready, and the extraction engine is never
\* invoked, no deactivation is requested and the pool is not asked to stop.
C8_ValidationErrorInsideTask ==
    exit.kind = "validation" =>
        /\ exit.status # 0
        /\ exit.msg \in {"block_size", "extent_size", "mod_count",
                         "extra_argument", "no_file", "not_a_multiple"}
        /\ calls["dumpfile"] = 0
        /\ calls["controller_shutdown"] = 0
        /\ poolStops = <<>>
        /\ calls["start"] = 1
        /\ fsm = "live"
        /\ Len(readyBy) = 1
        /\ pc_main = "blocked"

C8_Witness ==
    /\ exit.kind = "validation"
    /\ exit.msg = "not_a_multiple"
    /\ mode.start = "deferred"

\* C9 as stated: whenever a help flag is among the arguments, no runner and
\* no fsm is ever constructed, and parsing ends in usage.
C9_Original ==
    HelpPresent(args) =>
        /\ calls["new_runner"] = 0
        /\ calls["new_fsm"] = 0
        /\ Parsed => exit.kind = "usage"

\* C9, amended: when a help flag is among the arguments and every argument
\* before it is a plain word or an option written apart from its argument
\* (a positive int for an override), parsing ends in usage with a non-zero
\* status and the extraction engine is never invoked; the runner and the
\* fsm have been constructed by then.
C9_HelpReachedGivesUsage ==
    Parsed /\ HelpReached(args, 1) =>
        /\ exit.kind = "usage"
        /\ exit.status # 0
        /\ calls["dumpfile"] = 0
        /\ calls["new_runner"] = 1
        /\ calls["new_fsm"] = 1

C9_Witness ==
    /\ exit.kind = "usage"
    /\ Len(args) = 3
    /\ args[1] = T_f
    /\ args[3] = T_help

\* C10: with both overrides given as positive integers b and e and a data
\* file, parsing fails if and only if e mod b # 0, and then with the
\* message that names both values; a Config that is returned with both
\* overrides has extent_size mod block_size = 0.
C10_RejectedIffNotMultiple ==
    Parsed /\ BothPositive(args) =>
        LET b == Decimal(args[2], Len(args[2]))
            e == Decimal(args[4], Len(args[4]))
        IN  /\ exit.kind = "validation" <=> e % b # 0
            /\ exit.kind = "validation" => exit.msg = "not_a_multiple"
            /\ exit.kind # "validation" =>
                  cfg.overrides.extent_size % cfg.overrides.block_size = 0


\* C11: of the faults of a command line the one reported is the first in
\* the order: an option that is unknown, lacks its argument or is an
\* override with an invalid value (usage, or the error that names the
\* field), then a stray word, then a missing or empty input file, then an
\* extent size that is no multiple of the block size; each ends the process
\* with a non-zero status inside parse_cmd_args, which does not return and
\* the extraction engine is not invoked.
C11_FirstFaultReported ==
    Parsed /\ FirstFault(Scan(args, 1, ScanInit)) # "none" =>
        /\ exit.msg = FirstFault(Scan(args, 1, ScanInit))
        /\ exit.kind = IF exit.msg \in UsageFaults THEN "usage" ELSE "validation"
        /\ exit.status # 0
        /\ calls["dumpfile"] = 0
        /\ InFrame("run", {"parse"})

C11_Witness ==
    /\ args = <<T_block, <<"2">>, T_extent, <<"3">>, <<"w">>>>
    /\ exit.kind = "validation"
    /\ exit.msg = "extra_argument"

\* the process has ended through fail() or a signal
Faulted == exit.kind \in {"fatal", "signal", "usage", "validation"}

\* main has returned 0 after the pool was asked to stop
Stopped ==
    /\ pc_main = "returned"
    /\ exit.kind = "normal"
    /\ exit.status = 0
    /\ poolStops = <<"on_logger_shutdown">>
    /\ pool_stopped

\* C12: on a command line without a fault, when neither the task nor a
\* signal ends the process and every deferred callback is delivered, the
\* run eventually has the pool asked to stop, thread_pool.run returned and
\* main returned 0; and main never returns before on_logger_shutdown has
\* asked the pool to stop.
C12_EventuallyStopped ==
    /\ (FirstFault(Scan(args, 1, ScanInit)) = "none" /\ []~Faulted) => <>Stopped
    /\ [](pc_main = "returned" => poolStops = <<"on_logger_shutdown">>)

C12_Witness ==
    /\ Stopped
    /\ mode.start = "deferred"
    /\ mode.shutdown = "deferred"
    /\ args = <<T_block, <<"2">>, T_extent, <<"2">>, T_f, <<"a">>>>


\* C13: usage(), fail() and the crash handler end the process with a
\* non-zero status in the step that calls them: that step requests no
\* deactivation, asks no pool to stop, releases neither the runner nor the
\* fsm and leaves the callbacks that the controller owes as they are; and
\* no step is taken in a state in which the process has ended that way.
C13_FatalEndsProcess ==
    [][/\ ~Faulted
       /\ Faulted' =>
             /\ exit'.status # 0
             /\ calls'["controller_shutdown"] = calls["controller_shutdown"]
             /\ poolStops' = poolStops
             /\ runner' = runner
             /\ fsm' = fsm
             /\ pending' = pending
             /\ stack' = stack
             /\ pc_main' = pc_main]_vars

\* the crash handler ran while the ready callback was owed
C13_Witness ==
    /\ exit.kind = "fatal"
    /\ exit.msg = "crash"
    /\ pending.ready
    /\ fsm = "live"
    /\ runner = "live"
    /\ poolStops = <<>>

\* the frames of runner::run that are on the stack of context c
RunFrames(c) == {i \in 1..Len(stack[c]) : stack[c][i].fn = "run"}

\* C14: runner->run() is called at most once, and once as soon as
\* on_logger_ready is past its first statement; at most one execution of it
\* is in progress, and that one was called from inside on_logger_ready on
\* the context that entered on_logger_ready; controller.shutdown is not
\* called while it is in progress.
C14_RunOnceInsideReady ==
    /\ calls["run"] <= 1
    /\ Len(readyBy) = 1 /\ ~InFrame("on_logger_ready", {"run"}) => calls["run"] = 1
    /\ exit.kind = "normal" => calls["run"] = 1
    /\ \A c \in Contexts : \A d \in Contexts :
          RunFrames(c) # {} /\ RunFrames(d) # {} => c = d
    /\ \A c \in Contexts :
          /\ Cardinality(RunFrames(c)) <= 1
          /\ \A i \in RunFrames(c) :
                /\ i > 1
                /\ stack[c][i - 1].fn = "on_logger_ready"
                /\ stack[c][i - 1].pc = "shutdown"
                /\ Len(readyBy) = 1
                /\ readyBy[1].ctx = c
                /\ calls["controller_shutdown"] = 0
                /\ ~Happened("deactivate_req")

\* the task runs on the context the ready callback was delivered on, while
\* the worker is still inside start()
C14_Witness ==
    /\ exit.kind = "none"
    /\ RunFrames("ctx2") # {}
    /\ Top("ctx2").pc = "dumpfile"
    /\ InFrame("start", {"test"})
    /\ calls["run"] = 1

\* parse_cmd_args has returned to extractmain
ParseReturned == Parsed /\ exit.kind \notin {"usage", "validation"}

\* the value of an override that was given as str, 0 when it was not given
Override(str) == IF str = <<>> THEN 0 ELSE Decimal(str, Len(str))

\* a token of the command line is one of toks
Given(toks) == \E i \in 1..Len(args) : args[i] \in toks

\* every field of cfg is what the last option for it gave, and what
\* config->init() gave when there was no option for it
ConfigAsGiven(s) ==
    /\ cfg.input_file = s.input_file
    /\ cfg.log_file = s.log_file
    /\ cfg.output_file = s.output_file
    /\ cfg.overrides.block_size = Override(s.block_size)
    /\ cfg.overrides.extent_size = Override(s.extent_size)
    /\ cfg.overrides.mod_count = Override(s.mod_count)

\* C15: when parse_cmd_args returns, every field of the Config holds the
\* argument of the last option for that field and is as config->init() left
\* it when no option names it; -f p alone gives input_file = p, the default
\* output file, no log file and no override; the input file is not empty
\* and every override that was given is above 0.
C15_OnlyOwnField ==
    ParseReturned =>
        /\ ConfigAsGiven(Scan(args, 1, ScanInit))
        /\ Len(args) = 2 /\ args[1] = T_f =>
              cfg = [config_init EXCEPT !.input_file = args[2]]
        /\ ~Given({T_l, T_log_file}) => cfg.log_file = config_init.log_file
        /\ ~Given({T_o, T_output_file}) => cfg.output_file = config_init.output_file
        /\ cfg.input_file # <<>>
        /\ cfg.overrides.block_size >= 0
        /\ cfg.overrides.extent_size >= 0
        /\ cfg.overrides.mod_count >= 0
        /\ Given({T_block}) <=> cfg.overrides.block_size > 0
        /\ Given({T_extent}) <=> cfg.overrides.extent_size > 0
        /\ Given({T_mod}) <=> cfg.overrides.mod_count > 0

C15_Witness ==
    /\ ParseReturned
    /\ args = <<T_f, <<"a">>>>
    /\ cfg = [config_init EXCEPT !.input_file = <<"a">>]
    /\ InFrame("run", {"dumpfile"})

\* the pool has dispatched the starter, the runner and the fsm are
\* constructed and the fsm started, and the controller has reported that
\* logging is ready
LoggingReady ==
    /\ ~queued
    /\ pc_main # "sigaction"
    /\ pc_main # "run"
    /\ calls["new_runner"] = 1
    /\ calls["new_fsm"] = 1
    /\ calls["start"] = 1
    /\ calls["controller_start"] = 1
    /\ Len(readyBy) = 1
    /\ ~pending.ready

\* C16: parse_cmd_args is called only from the task, which on_logger_ready
\* runs: when it has been called, the pool has dispatched the starter, the
\* runner and the fsm are constructed, the fsm is started and logging is
\* ready; and when it ends the process through usage() or fail(), the fsm
\* and the runner are live, no deactivation was requested, the pool was not
\* asked to stop and main is blocked in thread_pool.run.
C16_ParseInsideTask ==
    /\ calls["parse_cmd_args"] <= calls["run"]
    /\ ~LoggingReady => ~Parsed
    /\ Parsed => Happened("ready") /\ Happened("task_start")
    /\ exit.kind \in {"usage", "validation"} =>
          /\ Parsed
          /\ LoggingReady
          /\ InFrame("run", {"parse"})
          /\ InFrame("on_logger_ready", {"shutdown"})
          /\ fsm = "live"
          /\ runner = "live"
          /\ calls["controller_shutdown"] = 0
          /\ poolStops = <<>>
          /\ pc_main = "blocked"

C16_Witness ==
    /\ exit.kind = "usage"
    /\ exit.msg = "bad_option"
    /\ mode.start = "inline"
    /\ LoggingReady
    /\ pc_main = "blocked"

OverrideFaults == {"block_size", "extent_size", "mod_count"}

\* the override with an invalid value and the help flag, in both orders
OverrideThenHelp == <<T_mod, <<"0">>, T_h>>

HelpThenOverride == <<T_h, T_mod, <<"0">>>>

\* C17: the switch of parse_cmd_args sees the options in the order of the
\* command line, up to and including the first that ends the process and
\* none after it; when that one is an override with an invalid value the
\* process ends with the error that names its field and usage() is not
\* called, also when a help flag follows; when it is a help flag the
\* process ends in usage() and no override after it is reported.
C17_FirstOptionDecides ==
    Parsed =>
        /\ examined = Scan(args, 1, ScanInit).opts
        /\ Scan(args, 1, ScanInit).fault \in OverrideFaults =>
              /\ exit.kind = "validation"
              /\ exit.msg = Scan(args, 1, ScanInit).fault
        /\ Scan(args, 1, ScanInit).fault = "help" =>
              /\ exit.kind = "usage"
              /\ exit.msg = "help"
        /\ args = OverrideThenHelp =>
              /\ exit.kind = "validation"
              /\ exit.msg = "mod_count"
              /\ examined = <<force_mod_count>>
        /\ args = HelpThenOverride =>
              /\ exit.kind = "usage"
              /\ examined = <<Ord("h")>>

C17_Witness ==
    /\ args = OverrideThenHelp
    /\ exit.kind = "validation"
    /\ exit.msg = "mod_count"
    /\ examined = <<force_mod_count>>

\* on_cpu_switch has run its three statements
StarterDone ==
    /\ calls["on_cpu_switch"] >= 1
    /\ ~InFrame("on_cpu_switch", {"new_runner", "new_fsm", "start"})

\* C18: the pool dispatches the starter at most once, and on_cpu_switch
\* constructs at most one runner and one fsm and calls start() at most
\* once; each has happened once when on_cpu_switch has run its statements
\* and in every run that ends normally.  The fsm does not exist before the
\* dispatch, is live from its construction until gdelete(this) in
\* on_logger_shutdown, and is constructed only once.
C18_OneRunnerOneFsm ==
    /\ calls["on_cpu_switch"] <= 1
    /\ calls["new_runner"] <= calls["on_cpu_switch"]
    /\ calls["new_fsm"] <= calls["new_runner"]
    /\ calls["start"] <= calls["new_fsm"]
    /\ StarterDone \/ exit.kind = "normal" =>
          calls["new_runner"] = 1 /\ calls["new_fsm"] = 1 /\ calls["start"] = 1
    /\ queued \/ pc_main \in {"sigaction", "run"} =>
          calls["on_cpu_switch"] = 0 /\ fsm = "none" /\ runner = "none"
    /\ fsm = "none" <=> calls["new_fsm"] = 0
    /\ fsm = "live" <=> calls["new_fsm"] = 1 /\ calls["delete_fsm"] = 0
    /\ fsm = "released" <=> calls["delete_fsm"] = 1
    /\ fsm = "released" =>
          Len(shutdownBy) = 1 /\ ~InFrame("on_logger_shutdown", {"pool", "gdelete"})
    /\ InFrame("on_logger_shutdown", {"pool", "gdelete"}) => fsm = "live"
    /\ pc_main = "returned" => fsm = "released"

C18_Witness ==
    /\ exit.kind = "normal"
    /\ fsm = "released"
    /\ calls["on_cpu_switch"] = 1
    /\ calls["new_runner"] = 1
    /\ calls["new_fsm"] = 1
    /\ calls["start"] = 1
    /\ mode.start = "inline"
    /\ mode.shutdown = "inline"

====
